---- MODULE Spec2Model ----
(***************************************************************************)
(* Model of src/app.py (solar-rooftop-analyzer): the Analyze handler, the  *)
(* extraction of a JSON object from the model's reply (analyze_image) and  *)
(* the ROI computation (calculate_roi).                                    *)
(*                                                                         *)
(* Numbers are exact rationals n/d (Python floats without rounding), a     *)
(* reply is a sequence of lexical tokens, and a decoded JSON object is a   *)
(* total map from key names to values with an "absent" marker.             *)
(***************************************************************************)
EXTENDS Integers, Sequences, FiniteSets, TLC

VARIABLES
    pc,               \* position of the Analyze handler / analyze_image
    electricity_rate, \* st.number_input value (line 130)
    response,         \* what the HTTP collaborator will answer
    content,          \* result_json["choices"][0]["message"]["content"]
    json_start,       \* line 85
    json_end,         \* line 86
    json_text,        \* line 87
    analysis,         \* return value of analyze_image (None or decoded)
    roi,              \* return value of calculate_roi in the handler
    page,             \* what the page shows
    trace,            \* calls made by the current Analyze action, in order
    frames,           \* local variables of overlapping calculate_roi calls
    observed          \* one earlier call of calculate_roi and what it returned

hvars == <<pc, electricity_rate, response, content, json_start, json_end,
           json_text, analysis, roi, page, trace>>
vars == <<pc, electricity_rate, response, content, json_start, json_end,
          json_text, analysis, roi, page, trace, frames, observed>>

---------------------------------------------------------------------------
(* Values: JSON / Python scalars, all of one record shape.                 *)

Abs(x) == IF x < 0 THEN -x ELSE x

RECURSIVE GCD(_, _)
GCD(a, b) == IF b = 0 THEN a ELSE GCD(b, a % b)

\* The rational n/d in lowest terms with a positive denominator.
Num(n, d) ==
    LET g == GCD(Abs(n), Abs(d))
        sgn == IF d < 0 THEN -1 ELSE 1
    IN  [t |-> "num", n |-> sgn * (n \div g), d |-> sgn * (d \div g), s |-> ""]

Whole(n) == Num(n, 1)
Str(x) == [t |-> "str", n |-> 0, d |-> 1, s |-> x]
\* float("inf")
Inf == [t |-> "inf", n |-> 0, d |-> 1, s |-> ""]
\* An unset local, or a key the decoded object does not hold.
Nil == [t |-> "nil", n |-> 0, d |-> 1, s |-> ""]
\* A nested JSON object used as a value (its members are not looked at).
ObjVal == [t |-> "obj", n |-> 0, d |-> 1, s |-> ""]
\* An exception raised while evaluating an expression.
Raised(name) == [t |-> "exc", n |-> 0, d |-> 1, s |-> name]

IsNum(v) == v.t = "num"
IsExc(v) == v.t = "exc"

\* Python's binary * on the values that reach calculate_roi: number * number
\* multiplies, str * int repeats the string, str * float raises TypeError.
PyMulInt(a, k) ==
    CASE IsExc(a) -> a
      [] IsNum(a) -> Num(a.n * k, a.d)
      [] a.t = "str" -> Str("repeated")
      [] OTHER -> Raised("TypeError")

PyMulFloat(a, b) ==
    CASE IsExc(a) -> a
      [] IsExc(b) -> b
      [] IsNum(a) /\ IsNum(b) -> Num(a.n * b.n, a.d * b.d)
      [] OTHER -> Raised("TypeError")

PySub(a, b) ==
    CASE IsExc(a) -> a
      [] IsExc(b) -> b
      [] IsNum(a) /\ IsNum(b) -> Num(a.n * b.d - b.n * a.d, a.d * b.d)
      [] OTHER -> Raised("TypeError")

PyDiv(a, b) ==
    CASE IsExc(a) -> a
      [] IsExc(b) -> b
      [] IsNum(a) /\ IsNum(b) ->
            IF b.n = 0 THEN Raised("ZeroDivisionError")
            ELSE Num(a.n * b.d, a.d * b.n)
      [] OTHER -> Raised("TypeError")

\* a > 0 on numbers.
PyGtZero(a) == IsNum(a) /\ a.n > 0

---------------------------------------------------------------------------
(* calculate_roi, lines 101-121.                                           *)

panel_watts_per_sqm == 200
cost_per_watt == Whole(3)
incentive_rate == Num(30, 100)

total_watts_of(roof_area_sqm) == PyMulInt(roof_area_sqm, panel_watts_per_sqm)

installation_cost_of(total_watts) == PyMulFloat(total_watts, cost_per_watt)

incentive_of(installation_cost) == PyMulFloat(installation_cost, incentive_rate)

\* The subtraction with its operands exchanged.
net_cost_swapped(installation_cost, incentive) == PySub(incentive, installation_cost)

net_cost_of(installation_cost, incentive) == PySub(installation_cost, incentive)

annual_savings_of(estimated_annual_kwh, rate) ==
    PyMulFloat(estimated_annual_kwh, rate)

\* The guard written annual_savings >= 0.
payback_period_guard_ge(net_cost, annual_savings) ==
    IF IsExc(net_cost) THEN net_cost
    ELSE IF IsExc(annual_savings) THEN annual_savings
    ELSE IF IsNum(annual_savings) /\ annual_savings.n >= 0
         THEN PyDiv(net_cost, annual_savings)
    ELSE Inf

payback_period_of(net_cost, annual_savings) ==
    IF IsExc(net_cost) THEN net_cost
    ELSE IF IsExc(annual_savings) THEN annual_savings
    ELSE IF PyGtZero(annual_savings) THEN PyDiv(net_cost, annual_savings)
    ELSE Inf

\* The first exception among the values, in evaluation order, or Nil.
RECURSIVE FirstExc(_)
FirstExc(vs) ==
    IF vs = << >> THEN Nil
    ELSE IF IsExc(Head(vs)) THEN Head(vs)
    ELSE FirstExc(Tail(vs))

Projection(tw, ic, inc, nc, sav, pb) ==
    [exc |-> FirstExc(<<tw, ic, inc, nc, sav, pb>>),
     total_watts |-> tw, installation_cost |-> ic, incentive |-> inc,
     net_cost |-> nc, annual_savings |-> sav, payback_period_years |-> pb]

NoProjection == Projection(Nil, Nil, Nil, Nil, Nil, Nil)

calculate_roi(roof_area_sqm, estimated_annual_kwh, rate) ==
    LET tw  == total_watts_of(roof_area_sqm)
        ic  == installation_cost_of(tw)
        inc == incentive_of(ic)
        nc  == net_cost_of(ic, inc)
        sav == annual_savings_of(estimated_annual_kwh, rate)
        pb  == payback_period_of(nc, sav)
    IN  Projection(tw, ic, inc, nc, sav, pb)

---------------------------------------------------------------------------
(* The model's reply as text: a sequence of lexical tokens.                *)

FieldOrder ==
    <<"roof_area_sqm", "azimuth_degrees", "tilt_degrees", "shading_percentage",
      "suggested_panel_type", "estimated_annual_kwh">>
FieldNames == {FieldOrder[i] : i \in DOMAIN FieldOrder}
NumericFields == FieldNames \ {"suggested_panel_type"}
Keys == FieldNames \cup {"note"}

Tok(c, k, v) == [c |-> c, k |-> k, v |-> v]
LB == Tok("{", "", Nil)
RB == Tok("}", "", Nil)
COMMA == Tok(",", "", Nil)
\* JSON whitespace
WS == Tok("ws", "", Nil)
\* a word of prose
PROSE == Tok("prose", "", Nil)
\* a triple-backtick fence
FENCE == Tok("fence", "", Nil)
\* "name":
Key(name) == Tok("key", name, Nil)
\* a JSON number or string
Val(v) == Tok("val", "", v)

Min(a, b) == IF a < b THEN a ELSE b
Max(a, b) == IF a > b THEN a ELSE b

\* str.find: the lowest 0-based index of the token, or -1.
PyFind(text, tok) ==
    LET at == {i \in 1..Len(text) : text[i] = tok}
    IN  IF at = {} THEN -1
        ELSE (CHOOSE i \in at : \A j \in at : i <= j) - 1

\* str.rfind: the highest 0-based index of the token, or -1.
PyRFind(text, tok) ==
    LET at == {i \in 1..Len(text) : text[i] = tok}
    IN  IF at = {} THEN -1
        ELSE (CHOOSE i \in at : \A j \in at : i >= j) - 1

\* A slice whose negative start is taken as 0.
PySliceClamped(text, start, end) ==
    LET lo == Min(Max(start, 0), Len(text))
        hi == Min(Max(end, 0), Len(text))
    IN  IF lo < hi THEN SubSeq(text, lo + 1, hi) ELSE << >>

\* text[start:end]: a negative bound counts from the end of the text.
PySlice(text, start, end) ==
    LET n  == Len(text)
        lo == IF start < 0 THEN Max(n + start, 0) ELSE Min(start, n)
        hi == IF end < 0 THEN Max(n + end, 0) ELSE Min(end, n)
    IN  IF lo < hi THEN SubSeq(text, lo + 1, hi) ELSE << >>

---------------------------------------------------------------------------
(* json.loads on token sequences: objects of "key": value members, values  *)
(* numbers, strings or nested objects, whitespace between tokens. A key    *)
(* given twice keeps its last value.                                       *)

EmptyMap == [k \in Keys |-> Nil]

Decoded(ok, next, val, m) == [ok |-> ok, next |-> next, val |-> val, m |-> m]
DecodeError == Decoded(FALSE, 0, Nil, EmptyMap)

RECURSIVE SkipWs(_, _)
SkipWs(s, i) == IF i <= Len(s) /\ s[i] = WS THEN SkipWs(s, i + 1) ELSE i

RECURSIVE ParseValue(_, _)
RECURSIVE ParseMembers(_, _, _)

\* An object starting at the "{" at position i.
ParseObject(s, i) ==
    LET j == SkipWs(s, i + 1)
    IN  IF j > Len(s) THEN DecodeError
        ELSE IF s[j] = RB THEN Decoded(TRUE, j + 1, ObjVal, EmptyMap)
        ELSE ParseMembers(s, j, EmptyMap)

\* A value starting at position i.
ParseValue(s, i) ==
    IF i > Len(s) THEN DecodeError
    ELSE IF s[i].c = "val" THEN Decoded(TRUE, i + 1, s[i].v, EmptyMap)
    ELSE IF s[i] = LB THEN ParseObject(s, i)
    ELSE DecodeError

\* The members of an object from position i on, m holding those before.
ParseMembers(s, i, m) ==
    IF i > Len(s) \/ s[i].c # "key" THEN DecodeError
    ELSE LET v == ParseValue(s, SkipWs(s, i + 1))
         IN  IF ~v.ok THEN DecodeError
             ELSE LET j  == SkipWs(s, v.next)
                      m2 == [m EXCEPT ![s[i].k] = v.val]
                  IN  IF j > Len(s) THEN DecodeError
                      ELSE IF s[j] = RB THEN Decoded(TRUE, j + 1, ObjVal, m2)
                      ELSE IF s[j] = COMMA
                           THEN ParseMembers(s, SkipWs(s, j + 1), m2)
                      ELSE DecodeError

\* json.loads(s): one value and nothing but whitespace around it.
json_loads(s) ==
    LET v == ParseValue(s, SkipWs(s, 1))
    IN  IF v.ok /\ SkipWs(s, v.next) = Len(s) + 1 THEN v ELSE DecodeError

\* What analyze_image returns: None, or the decoded value.
NoneAnalysis == [none |-> TRUE, val |-> Nil, m |-> EmptyMap]
SomeAnalysis(v) == [none |-> FALSE, val |-> v.val, m |-> v.m]

\* Python truthiness of `analysis`.
Truthy(a) ==
    /\ ~a.none
    /\ CASE a.val.t = "obj" -> \E k \in Keys : a.m[k] # Nil
         [] a.val.t = "num" -> a.val.n # 0
         [] a.val.t = "str" -> a.val.s # ""
         [] OTHER -> FALSE

\* analysis[key]
Subscript(a, key) ==
    IF a.none \/ a.val.t # "obj" THEN Raised("TypeError")
    ELSE IF a.m[key] = Nil THEN Raised("KeyError")
    ELSE a.m[key]

EmptyPage ==
    [lines |-> << >>, text_shown |-> FALSE, text |-> << >>,
     json_shown |-> FALSE, json |-> NoneAnalysis, roi_lines |-> << >>]

HandlerIdle ==
    /\ pc = "idle"
    /\ electricity_rate = Nil
    /\ response = [kind |-> "none", text |-> << >>]
    /\ content = << >>
    /\ json_start = 0
    /\ json_end = 0
    /\ json_text = << >>
    /\ analysis = NoneAnalysis
    /\ roi = NoProjection
    /\ page = EmptyPage
    /\ trace = << >>

---------------------------------------------------------------------------
(* calculate_roi line by line: each invocation owns a frame of locals, and *)
(* invocations of different sessions may overlap.                          *)

Sessions == {1, 2}

AreaInputs == {Whole(100), Whole(50), Str("abc")}
KwhInputs == {Whole(10000), Whole(0), Whole(-100)}
RateInputs == {Num(15, 100), Whole(0)}

IdleFrame ==
    [pc |-> "idle", roof_area_sqm |-> Nil, estimated_annual_kwh |-> Nil,
     electricity_rate |-> Nil, total_watts |-> Nil, installation_cost |-> Nil,
     incentive |-> Nil, net_cost |-> Nil, annual_savings |-> Nil,
     payback_period |-> Nil, ret |-> NoProjection]

NothingObserved ==
    [seen |-> FALSE, roof_area_sqm |-> Nil, estimated_annual_kwh |-> Nil,
     electricity_rate |-> Nil, ret |-> NoProjection]

\* A global that is shared by every invocation, instead of a local.
StoreGlobal(fr, i, name, val) ==
    [j \in DOMAIN fr |-> [fr[j] EXCEPT ![name] = val]]

\* Assignment to a local variable of invocation i.
StoreLocal(fr, i, name, val) == [fr EXCEPT ![i][name] = val]

\* One assignment statement of invocation i: the value is stored and control
\* moves on, or the expression raised and the invocation ends.
Assign(i, name, val, next) ==
    IF IsExc(val)
    THEN frames' = [frames EXCEPT ![i].pc = "raised",
                                  ![i].ret = [NoProjection EXCEPT !.exc = val]]
    ELSE frames' = [StoreLocal(frames, i, name, val) EXCEPT ![i].pc = next]

Call(i, a, k, r) ==
    /\ frames[i].pc \in {"idle", "returned", "raised"}
    /\ frames' = [frames EXCEPT ![i] =
                    [IdleFrame EXCEPT !.pc = "L107", !.roof_area_sqm = a,
                                      !.estimated_annual_kwh = k,
                                      !.electricity_rate = r]]
    /\ UNCHANGED <<hvars, observed>>

L107(i) ==
    /\ frames[i].pc = "L107"
    /\ Assign(i, "total_watts", total_watts_of(frames[i].roof_area_sqm), "L108")
    /\ UNCHANGED <<hvars, observed>>

L108(i) ==
    /\ frames[i].pc = "L108"
    /\ Assign(i, "installation_cost",
              installation_cost_of(frames[i].total_watts), "L109")
    /\ UNCHANGED <<hvars, observed>>

L109(i) ==
    /\ frames[i].pc = "L109"
    /\ Assign(i, "incentive", incentive_of(frames[i].installation_cost), "L110")
    /\ UNCHANGED <<hvars, observed>>

L110(i) ==
    /\ frames[i].pc = "L110"
    /\ Assign(i, "net_cost",
              net_cost_of(frames[i].installation_cost, frames[i].incentive),
              "L111")
    /\ UNCHANGED <<hvars, observed>>

L111(i) ==
    /\ frames[i].pc = "L111"
    /\ Assign(i, "annual_savings",
              annual_savings_of(frames[i].estimated_annual_kwh,
                                frames[i].electricity_rate), "L112")
    /\ UNCHANGED <<hvars, observed>>

L112(i) ==
    /\ frames[i].pc = "L112"
    /\ Assign(i, "payback_period",
              payback_period_of(frames[i].net_cost, frames[i].annual_savings),
              "L114")
    /\ UNCHANGED <<hvars, observed>>

\* return {...}, lines 114-121. The first return of a run may be kept in
\* `observed` for comparison with later ones.
Return(i) ==
    /\ frames[i].pc = "L114"
    /\ LET f == frames[i]
           r == Projection(f.total_watts, f.installation_cost, f.incentive,
                           f.net_cost, f.annual_savings, f.payback_period)
       IN  /\ frames' = [frames EXCEPT ![i].pc = "returned", ![i].ret = r]
           /\ \/ UNCHANGED observed
              \/ /\ ~observed.seen
                 /\ observed' = [seen |-> TRUE,
                                 roof_area_sqm |-> f.roof_area_sqm,
                                 estimated_annual_kwh |-> f.estimated_annual_kwh,
                                 electricity_rate |-> f.electricity_rate,
                                 ret |-> r]
    /\ UNCHANGED hvars

InitROI ==
    /\ HandlerIdle
    /\ frames = [i \in Sessions |-> IdleFrame]
    /\ observed = NothingObserved

NextROI ==
    \E i \in Sessions :
        \/ \E a \in AreaInputs, k \in KwhInputs, r \in RateInputs : Call(i, a, k, r)
        \/ L107(i)
        \/ L108(i)
        \/ L109(i)
        \/ L110(i)
        \/ L111(i)
        \/ L112(i)
        \/ Return(i)

SpecROI == InitROI /\ [][NextROI]_vars

---------------------------------------------------------------------------
(* analyze_image (lines 76-98) and the Analyze handler (lines 132-164).    *)

MalformedJsonMessage == "Failed to parse model's response as JSON."
ApiRequestFailedMessage == "API request failed"
ApiJsonMessage == "Failed to parse API JSON response"
AnalysisFailedMessage == "Image analysis failed. Please try again."
UnexpectedErrorMessage == "Unexpected error"
ErrorMessages ==
    {MalformedJsonMessage, ApiRequestFailedMessage, ApiJsonMessage,
     AnalysisFailedMessage, UnexpectedErrorMessage}

Show(pg, line) == [pg EXCEPT !.lines = Append(@, line)]

\* round-half-even of n/d, d > 0
RoundHalfEven(n, d) ==
    LET q == n \div d
        r == n % d
    IN  IF 2 * r < d THEN q
        ELSE IF 2 * r > d THEN q + 1
        ELSE IF q % 2 = 0 THEN q ELSE q + 1

\* f"{v:.2f}": two decimals for a number, the text "inf" for float("inf").
format_2f(v) ==
    IF v = Inf THEN [via |-> ".2f", text |-> "inf", hundredths |-> 0]
    ELSE [via |-> ".2f", text |-> "number",
          hundredths |-> RoundHalfEven(v.n * 100, v.d)]

\* line 86, the slice's end as the last "}" is at rfind itself.
json_end_rfind(text) == PyRFind(text, RB)

\* line 86
json_end_of(text) == PyRFind(text, RB) + 1

\* The handler shows the extracted substring instead of the reply.
except_89_shows_slice(pg, raw, slice) ==
    [Show(pg, MalformedJsonMessage) EXCEPT !.text_shown = TRUE, !.text = slice]

\* lines 89-91: st.error(...) and st.text(content)
except_89(pg, raw, slice) ==
    [Show(pg, MalformedJsonMessage) EXCEPT !.text_shown = TRUE, !.text = raw]

\* line 132: the button is pressed with a file uploaded. The rate is the
\* number input's value; the collaborator's answer is fixed from here on.
Analyze(rate, resp) ==
    /\ pc = "idle"
    /\ pc' = "L134"
    /\ electricity_rate' = rate
    /\ response' = resp
    /\ UNCHANGED <<content, json_start, json_end, json_text, analysis, roi,
                   page, trace, frames, observed>>

\* lines 134-136: the image opens and is encoded.
OpenImage ==
    /\ pc = "L134"
    /\ pc' = "L77"
    /\ UNCHANGED <<electricity_rate, response, content, json_start, json_end,
                   json_text, analysis, roi, page, trace, frames, observed>>

\* lines 134-136 raise (not an image): caught at line 163.
OpenImageFails ==
    /\ pc = "L134"
    /\ pc' = "done"
    /\ page' = Show(page, UnexpectedErrorMessage)
    /\ UNCHANGED <<electricity_rate, response, content, json_start, json_end,
                   json_text, analysis, roi, trace, frames, observed>>

\* The request is sent again after a failure, up to three times.
PostRequestRetried ==
    /\ pc = "L77"
    /\ response.kind = "request_exception"
    /\ trace' = Append(trace, "post")
    /\ page' = Show(page, ApiRequestFailedMessage)
    /\ analysis' = NoneAnalysis
    /\ pc' = IF Len(trace) < 2 THEN "L77" ELSE "L139"
    /\ UNCHANGED <<electricity_rate, response, content, json_start, json_end,
                   json_text, roi, frames, observed>>

\* lines 77-78 raise a RequestException: lines 93-95.
PostRequestFailed ==
    /\ pc = "L77"
    /\ response.kind = "request_exception"
    /\ trace' = Append(trace, "post")
    /\ page' = Show(page, ApiRequestFailedMessage)
    /\ analysis' = NoneAnalysis
    /\ pc' = "L139"
    /\ UNCHANGED <<electricity_rate, response, content, json_start, json_end,
                   json_text, roi, frames, observed>>

\* line 79 raises: the body is not JSON. The exception is a RequestException
\* (line 93) or a json.JSONDecodeError only (line 96), by the library version.
PostBadBody ==
    /\ pc = "L77"
    /\ response.kind = "bad_body"
    /\ trace' = Append(trace, "post")
    /\ \E msg \in {ApiRequestFailedMessage, ApiJsonMessage} :
          page' = Show(page, msg)
    /\ analysis' = NoneAnalysis
    /\ pc' = "L139"
    /\ UNCHANGED <<electricity_rate, response, content, json_start, json_end,
                   json_text, roi, frames, observed>>

\* line 80 raises KeyError (no "choices"): not caught in analyze_image,
\* caught at line 163.
PostNoChoices ==
    /\ pc = "L77"
    /\ response.kind = "no_choices"
    /\ trace' = Append(trace, "post")
    /\ page' = Show(page, UnexpectedErrorMessage)
    /\ pc' = "done"
    /\ UNCHANGED <<electricity_rate, response, content, json_start, json_end,
                   json_text, analysis, roi, frames, observed>>

\* lines 77-80: the reply's text is in `content`.
PostContent ==
    /\ pc = "L77"
    /\ response.kind = "content"
    /\ trace' = Append(trace, "post")
    /\ content' = response.text
    /\ pc' = "L85"
    /\ UNCHANGED <<electricity_rate, response, json_start, json_end, json_text,
                   analysis, roi, page, frames, observed>>

\* line 85
Find ==
    /\ pc = "L85"
    /\ trace' = Append(trace, "parse")
    /\ json_start' = PyFind(content, LB)
    /\ pc' = "L86"
    /\ UNCHANGED <<electricity_rate, response, content, json_end, json_text,
                   analysis, roi, page, frames, observed>>

\* line 86
RFind ==
    /\ pc = "L86"
    /\ json_end' = json_end_of(content)
    /\ pc' = "L87"
    /\ UNCHANGED <<electricity_rate, response, content, json_start, json_text,
                   analysis, roi, page, trace, frames, observed>>

\* line 87
Slice ==
    /\ pc = "L87"
    /\ json_text' = PySlice(content, json_start, json_end)
    /\ pc' = "L88"
    /\ UNCHANGED <<electricity_rate, response, content, json_start, json_end,
                   analysis, roi, page, trace, frames, observed>>

\* line 88: json.loads succeeds and analyze_image returns the decoded value.
Loads ==
    /\ pc = "L88"
    /\ json_loads(json_text).ok
    /\ trace' = Append(trace, "loads")
    /\ analysis' = SomeAnalysis(json_loads(json_text))
    /\ pc' = "L139"
    /\ UNCHANGED <<electricity_rate, response, content, json_start, json_end,
                   json_text, roi, page, frames, observed>>

\* line 88 raises: lines 89-92.
LoadsFails ==
    /\ pc = "L88"
    /\ ~json_loads(json_text).ok
    /\ trace' = Append(trace, "loads")
    /\ page' = except_89(page, content, json_text)
    /\ analysis' = NoneAnalysis
    /\ pc' = "L139"
    /\ UNCHANGED <<electricity_rate, response, content, json_start, json_end,
                   json_text, roi, frames, observed>>

\* lines 139-141
IfAnalysis ==
    /\ pc = "L139"
    /\ Truthy(analysis)
    /\ page' = [Show(page, "Analysis Results") EXCEPT !.json_shown = TRUE,
                                                      !.json = analysis]
    /\ pc' = "L143"
    /\ UNCHANGED <<electricity_rate, response, content, json_start, json_end,
                   json_text, analysis, roi, trace, frames, observed>>

\* lines 160-161
ElseAnalysis ==
    /\ pc = "L139"
    /\ ~Truthy(analysis)
    /\ page' = Show(page, AnalysisFailedMessage)
    /\ pc' = "done"
    /\ UNCHANGED <<electricity_rate, response, content, json_start, json_end,
                   json_text, analysis, roi, trace, frames, observed>>

\* lines 143-147: both arguments are there and calculate_roi returns.
Compute ==
    /\ pc = "L143"
    /\ LET a == Subscript(analysis, "roof_area_sqm")
           k == Subscript(analysis, "estimated_annual_kwh")
           r == calculate_roi(a, k, electricity_rate)
       IN  /\ ~IsExc(a) /\ ~IsExc(k)
           /\ r.exc = Nil
           /\ roi' = r
    /\ trace' = Append(trace, "compute")
    /\ pc' = "L149"
    /\ UNCHANGED <<electricity_rate, response, content, json_start, json_end,
                   json_text, analysis, page, frames, observed>>

\* lines 143-147: calculate_roi is called and raises (a string where a
\* number is needed); caught at line 163.
ComputeRaises ==
    /\ pc = "L143"
    /\ LET a == Subscript(analysis, "roof_area_sqm")
           k == Subscript(analysis, "estimated_annual_kwh")
       IN  /\ ~IsExc(a) /\ ~IsExc(k)
           /\ calculate_roi(a, k, electricity_rate).exc # Nil
    /\ trace' = Append(trace, "compute")
    /\ page' = Show(page, UnexpectedErrorMessage)
    /\ pc' = "done"
    /\ UNCHANGED <<electricity_rate, response, content, json_start, json_end,
                   json_text, analysis, roi, frames, observed>>

\* lines 144-145 raise KeyError before calculate_roi is called; caught at
\* line 163.
ComputeArgMissing ==
    /\ pc = "L143"
    /\ \/ IsExc(Subscript(analysis, "roof_area_sqm"))
       \/ IsExc(Subscript(analysis, "estimated_annual_kwh"))
    /\ page' = Show(page, UnexpectedErrorMessage)
    /\ pc' = "done"
    /\ UNCHANGED <<electricity_rate, response, content, json_start, json_end,
                   json_text, analysis, roi, trace, frames, observed>>

\* lines 149-155: every field of the projection through ":.2f".
Render ==
    /\ pc = "L149"
    /\ page' = [Show(page, "ROI Estimates") EXCEPT !.roi_lines =
                  <<format_2f(roi.total_watts), format_2f(roi.installation_cost),
                    format_2f(roi.incentive), format_2f(roi.net_cost),
                    format_2f(roi.annual_savings),
                    format_2f(roi.payback_period_years)>>]
    /\ pc' = "L157"
    /\ UNCHANGED <<electricity_rate, response, content, json_start, json_end,
                   json_text, analysis, roi, trace, frames, observed>>

\* lines 157-159
Recommend ==
    /\ pc = "L157"
    /\ ~IsExc(Subscript(analysis, "suggested_panel_type"))
    /\ page' = Show(page, "Recommendations")
    /\ pc' = "done"
    /\ UNCHANGED <<electricity_rate, response, content, json_start, json_end,
                   json_text, analysis, roi, trace, frames, observed>>

\* line 158 raises KeyError; caught at line 163.
RecommendRaises ==
    /\ pc = "L157"
    /\ IsExc(Subscript(analysis, "suggested_panel_type"))
    /\ page' = Show(page, UnexpectedErrorMessage)
    /\ pc' = "done"
    /\ UNCHANGED <<electricity_rate, response, content, json_start, json_end,
                   json_text, analysis, roi, trace, frames, observed>>

\* The next interaction reruns the script: nothing of this run is kept.
Rerun ==
    /\ pc = "done"
    /\ pc' = "idle"
    /\ electricity_rate' = Nil
    /\ response' = [kind |-> "none", text |-> << >>]
    /\ content' = << >>
    /\ json_start' = 0
    /\ json_end' = 0
    /\ json_text' = << >>
    /\ analysis' = NoneAnalysis
    /\ roi' = NoProjection
    /\ page' = EmptyPage
    /\ trace' = << >>
    /\ UNCHANGED <<frames, observed>>

---------------------------------------------------------------------------
(* Replies. An object is written field by field in the prompt's order;     *)
(* the reply may wrap it in prose or fences, or be something else.         *)

MaxLen == 4

AreaValues == {Whole(100), Whole(-5), Str("abc")}
KwhValues == {Whole(10000), Whole(0)}

FieldValue(f, a, k) ==
    CASE f = "roof_area_sqm" -> a
      [] f = "azimuth_degrees" -> Whole(180)
      [] f = "tilt_degrees" -> Whole(30)
      [] f = "shading_percentage" -> Num(25, 2)
      [] f = "suggested_panel_type" -> Str("monocrystalline")
      [] f = "estimated_annual_kwh" -> k

RECURSIVE Members(_, _, _)
Members(fs, a, k) ==
    IF fs = << >> THEN << >>
    ELSE <<Key(Head(fs)), Val(FieldValue(Head(fs), a, k))>>
         \o (IF Tail(fs) = << >> THEN << >> ELSE <<COMMA>>)
         \o Members(Tail(fs), a, k)

\* The JSON object holding the fields of S.
ObjectText(S, a, k) ==
    LET Has(f) == f \in S
    IN  <<LB>> \o Members(SelectSeq(FieldOrder, Has), a, k) \o <<RB>>

Objects ==
    {ObjectText(S, a, k) : S \in SUBSET FieldNames, a \in AreaValues,
                           k \in KwhValues}

FullObject == ObjectText(FieldNames, Whole(100), Whole(10000))

\* Well-formed objects of other shapes: a key given twice, a nested object
\* as a value, whitespace between the tokens.
SpecialObjects ==
    {<<LB, Key("roof_area_sqm"), Val(Whole(7)), COMMA>> \o Tail(FullObject),
     <<LB, Key("note"), LB, Key("note"), Val(Str("x")), RB, COMMA>>
        \o Tail(FullObject),
     <<LB, WS>> \o SubSeq(FullObject, 2, Len(FullObject) - 1) \o <<WS, RB, WS>>}

Prefixes == {<< >>, <<PROSE>>, <<FENCE, PROSE>>, <<PROSE, LB, PROSE, RB, PROSE>>}
Suffixes == {<< >>, <<FENCE>>, <<PROSE, PROSE>>, <<PROSE, RB>>}

Embedded ==
    {pre \o o \o suf : pre \in Prefixes, o \in Objects \cup SpecialObjects,
                       suf \in Suffixes}

Alphabet == {LB, RB, COMMA, PROSE, WS, Key("roof_area_sqm"), Val(Whole(10))}
ShortTexts == UNION {[1..n -> Alphabet] : n \in 0..MaxLen}

SampleTexts ==
    {<< >>, <<PROSE, PROSE, PROSE>>, <<PROSE, LB, PROSE, RB, PROSE>>,
     <<LB, RB>>, <<PROSE, RB>>, <<LB, PROSE>>, <<RB, PROSE, LB>>}

ParseTexts == ShortTexts \cup Embedded \cup SampleTexts

HandlerTexts ==
    {o : o \in Objects \cup SpecialObjects}
    \cup {<<FENCE, PROSE>> \o o \o <<FENCE>> : o \in Objects}
    \cup SampleTexts

Responses ==
    {[kind |-> k, text |-> << >>] :
        k \in {"request_exception", "bad_body", "no_choices"}}
    \cup {[kind |-> "content", text |-> t] : t \in HandlerTexts}

---------------------------------------------------------------------------
(* The Analyze handler, run after run.                                     *)

Init ==
    /\ HandlerIdle
    /\ frames = [i \in Sessions |-> IdleFrame]
    /\ observed = NothingObserved

Next ==
    \/ \E rate \in RateInputs, resp \in Responses : Analyze(rate, resp)
    \/ OpenImage
    \/ OpenImageFails
    \/ PostRequestFailed
    \/ PostBadBody
    \/ PostNoChoices
    \/ PostContent
    \/ Find
    \/ RFind
    \/ Slice
    \/ Loads
    \/ LoadsFails
    \/ IfAnalysis
    \/ ElseAnalysis
    \/ Compute
    \/ ComputeRaises
    \/ ComputeArgMissing
    \/ Render
    \/ Recommend
    \/ RecommendRaises
    \/ Rerun

Spec == Init /\ [][Next]_vars

(* Lines 85-92 alone, on every text of ParseTexts: the state is that of    *)
(* analyze_image as line 80 has put the reply's text in `content`.         *)

InitParse ==
    /\ pc = "L85"
    /\ electricity_rate = Num(15, 100)
    /\ content \in ParseTexts
    /\ response = [kind |-> "content", text |-> content]
    /\ json_start = 0
    /\ json_end = 0
    /\ json_text = << >>
    /\ analysis = NoneAnalysis
    /\ roi = NoProjection
    /\ page = EmptyPage
    /\ trace = <<"post">>
    /\ frames = [i \in Sessions |-> IdleFrame]
    /\ observed = NothingObserved

NextParse ==
    \/ Find
    \/ RFind
    \/ Slice
    \/ Loads
    \/ LoadsFails

SpecParse == InitParse /\ [][NextParse]_vars

---------------------------------------------------------------------------
(* Claims about calculate_roi, checked under SpecROI.                      *)

\* x = y * z on rationals, by cross-multiplication.
IsProduct(x, y, z) == x.n * y.d * z.d = y.n * z.n * x.d
\* x = y - z on rationals, by cross-multiplication.
IsDifference(x, y, z) == x.n * y.d * z.d = (y.n * z.d - z.n * y.d) * x.d

ReturnedFrames == {i \in Sessions : frames[i].pc = "returned"}

\* C1: every returned projection satisfies total_watts = roof_area_sqm * 200,
\* installation_cost = total_watts * 3.0, incentive = installation_cost * 0.30,
\* net_cost = installation_cost - incentive, annual_savings =
\* estimated_annual_kwh * electricity_rate and, when annual_savings > 0,
\* payback_period_years = net_cost / annual_savings; compute(100, 10000, 0.15)
\* yields 20000, 60000, 18000, 42000, 1500 and 28.
C1_Formulas ==
    \A i \in ReturnedFrames :
        LET f == frames[i]
            r == f.ret
        IN  /\ IsNum(f.roof_area_sqm) /\ IsNum(f.estimated_annual_kwh)
            /\ r.exc = Nil
            /\ IsNum(r.total_watts) /\ IsNum(r.installation_cost)
            /\ IsNum(r.incentive) /\ IsNum(r.net_cost) /\ IsNum(r.annual_savings)
            /\ IsProduct(r.total_watts, f.roof_area_sqm, Whole(200))
            /\ IsProduct(r.installation_cost, r.total_watts, Whole(3))
            /\ IsProduct(r.incentive, r.installation_cost, Num(3, 10))
            /\ IsDifference(r.net_cost, r.installation_cost, r.incentive)
            /\ IsProduct(r.annual_savings, f.estimated_annual_kwh,
                         f.electricity_rate)
            /\ r.annual_savings.n > 0 =>
                  /\ IsNum(r.payback_period_years)
                  /\ IsProduct(r.net_cost, r.payback_period_years,
                               r.annual_savings)
            /\ (/\ f.roof_area_sqm = Whole(100)
                /\ f.estimated_annual_kwh = Whole(10000)
                /\ f.electricity_rate = Num(15, 100)) =>
                  /\ r.total_watts = Whole(20000)
                  /\ r.installation_cost = Whole(60000)
                  /\ r.incentive = Whole(18000)
                  /\ r.net_cost = Whole(42000)
                  /\ r.annual_savings = Whole(1500)
                  /\ r.payback_period_years = Whole(28)

C1_Witness ==
    \E i \in ReturnedFrames :
        /\ frames[i].roof_area_sqm = Whole(100)
        /\ frames[i].estimated_annual_kwh = Whole(10000)
        /\ frames[i].electricity_rate = Num(15, 100)
        /\ frames[i].ret.payback_period_years = Whole(28)

\* C2: payback_period_years is +infinity exactly when annual_savings <= 0,
\* the finite quotient net_cost / annual_savings otherwise, and no invocation
\* ends in a division by zero.
C2_PaybackInfinity ==
    /\ \A i \in Sessions : frames[i].ret.exc # Raised("ZeroDivisionError")
    /\ \A i \in ReturnedFrames :
          LET r == frames[i].ret
          IN  /\ (r.payback_period_years = Inf) <=> (r.annual_savings.n <= 0)
              /\ r.annual_savings.n > 0 =>
                    /\ IsNum(r.payback_period_years)
                    /\ IsProduct(r.net_cost, r.payback_period_years,
                                 r.annual_savings)

\* Both non-paying cases have returned: savings of zero and negative savings.
C2_Witness ==
    \E i, j \in ReturnedFrames :
        /\ frames[i].ret.annual_savings = Whole(0)
        /\ frames[i].ret.payback_period_years = Inf
        /\ frames[j].ret.annual_savings.n < 0
        /\ frames[j].ret.payback_period_years = Inf

SameInputs(f, g) ==
    /\ f.roof_area_sqm = g.roof_area_sqm
    /\ f.estimated_annual_kwh = g.estimated_annual_kwh
    /\ f.electricity_rate = g.electricity_rate

\* Invocations with identical inputs returned identical projections, whether
\* they overlapped or one came before the other.
Deterministic ==
    /\ \A i, j \in ReturnedFrames :
          SameInputs(frames[i], frames[j]) => frames[i].ret = frames[j].ret
    /\ \A i \in ReturnedFrames :
          (observed.seen /\ SameInputs(frames[i], observed)) =>
              frames[i].ret = observed.ret

\* A step of one invocation changes nothing of another invocation.
Isolated ==
    \A i \in Sessions :
        frames'[i] # frames[i] =>
            \A j \in Sessions \ {i} : frames'[j] = frames[j]

\* C8: calculate_roi is deterministic and side-effect-free: equal inputs give
\* equal projections whatever calls happen before or between, and a step of
\* an invocation changes no state of a later or overlapping invocation.
C8_Deterministic == [](Deterministic) /\ [][Isolated]_vars

\* An invocation returned what an earlier one with the same inputs returned,
\* while the other session is in the middle of a call with other inputs.
C8_Witness ==
    \E i \in ReturnedFrames, j \in Sessions :
        /\ observed.seen
        /\ SameInputs(frames[i], observed)
        /\ frames[i].ret = observed.ret
        /\ frames[j].pc = "L110"
        /\ ~SameInputs(frames[i], frames[j])

---------------------------------------------------------------------------
(* Claims about the extraction of the JSON object, checked under           *)
(* SpecParse.                                                              *)

HasTok(text, tok) == \E i \in 1..Len(text) : text[i] = tok
BraceFree(text) == ~HasTok(text, LB) /\ ~HasTok(text, RB)
FirstLB(text) ==
    CHOOSE i \in 1..Len(text) :
        text[i] = LB /\ \A j \in 1..(i - 1) : text[j] # LB
LastRB(text) ==
    CHOOSE i \in 1..Len(text) :
        text[i] = RB /\ \A j \in (i + 1)..Len(text) : text[j] # RB
\* The substring from the first "{" to the last "}", both included.
Between(text) ==
    IF FirstLB(text) <= LastRB(text)
    THEN SubSeq(text, FirstLB(text), LastRB(text))
    ELSE << >>

\* analyze_image has returned.
Parsed == pc = "L139"
ParseFailedWith(raw) ==
    /\ analysis = NoneAnalysis
    /\ page.lines = <<MalformedJsonMessage>>
    /\ page.text_shown
    /\ page.text = raw
    /\ ~page.json_shown

C5_MalformedJson ==
    (/\ Parsed
     /\ HasTok(content, LB) /\ HasTok(content, RB)
     /\ ~json_loads(Between(content)).ok) =>
        ParseFailedWith(content)

\* "prefix {not: valid json} suffix"
C5_Witness ==
    /\ Parsed
    /\ content = <<PROSE, LB, PROSE, RB, PROSE>>
    /\ json_text = <<LB, PROSE, RB>>
    /\ ParseFailedWith(content)

\* text without its whitespace tokens
NoWs(text) == LET NotWs(t) == t # WS IN SelectSeq(text, NotWs)

\* { "k": v , "k": v ... } with scalar values, declared position by position.
FlatObject(obj) ==
    LET b == NoWs(obj)
    IN  /\ Len(b) >= 4
        /\ (Len(b) - 1) % 3 = 0
        /\ b[1] = LB
        /\ b[Len(b)] = RB
        /\ \A q \in 2..(Len(b) - 1) :
              CASE (q - 2) % 3 = 0 -> b[q].c = "key"
                [] (q - 2) % 3 = 1 -> b[q].c = "val"
                [] OTHER -> b[q] = COMMA

\* The value the object's text gives key k (its last, if given twice).
WrittenValue(obj, k) ==
    LET b  == NoWs(obj)
        at == {q \in 1..Len(b) : b[q] = Key(k)}
    IN  IF at = {} THEN Nil
        ELSE b[(CHOOSE q \in at : \A r \in at : q >= r) + 1].v

\* content = prefix, obj, suffix: brace-free prefix and suffix around one
\* well-formed object that holds the six fields.
EmbedsObject(i, j) ==
    /\ 1 <= i /\ i < j /\ j <= Len(content)
    /\ BraceFree(SubSeq(content, 1, i - 1))
    /\ BraceFree(SubSeq(content, j + 1, Len(content)))
    /\ content[i] = LB
    /\ LET d == json_loads(SubSeq(content, i, j))
       IN  d.ok /\ \A f \in FieldNames : d.m[f] # Nil

\* C6: a brace-free prefix and suffix around one well-formed object with
\* the six fields change nothing: the attributes returned are those of the
\* bare object, which are the values its text gives the keys.
C6_Embedded ==
    Parsed =>
        \A i, j \in 1..Len(content) :
            EmbedsObject(i, j) =>
                LET obj == SubSeq(content, i, j)
                IN  /\ analysis = SomeAnalysis(json_loads(obj))
                    /\ page.lines = << >>
                    /\ FlatObject(obj) =>
                          \A k \in Keys : analysis.m[k] = WrittenValue(obj, k)

\* A fenced reply with prose before the object.
C6_Witness ==
    /\ Parsed
    /\ \E i, j \in 1..Len(content) :
          /\ EmbedsObject(i, j)
          /\ FlatObject(SubSeq(content, i, j))
          /\ SubSeq(content, 1, i - 1) = <<FENCE, PROSE>>
          /\ SubSeq(content, j + 1, Len(content)) = <<FENCE>>
    /\ analysis.m["roof_area_sqm"] = Whole(100)
    /\ analysis.m["suggested_panel_type"] = Str("monocrystalline")

---------------------------------------------------------------------------
(* Claims about the Analyze handler, checked under Spec.                   *)

Events == {trace[i] : i \in DOMAIN trace}
Lines == {page.lines[i] : i \in DOMAIN page.lines}
ErrorShown == Lines \cap ErrorMessages # {}

IsPrefix(a, b) == Len(a) <= Len(b) /\ a = SubSeq(b, 1, Len(a))

\* At most one request, then at most one parse, then at most one compute.
CallsInOrder == IsPrefix(trace, <<"post", "parse", "loads", "compute">>)

\* Once an error is on the page, the run makes no further call.
FailureIsTerminal == ErrorShown => (trace' = trace \/ pc' = "idle")

\* C7: an Analyze action makes at most one request, then at most one parse,
\* then at most one compute, in that order, and a failure ends it: nothing
\* is retried and calculate_roi is not called after a failure.
C7_SingleChain == [](CallsInOrder) /\ [][FailureIsTerminal]_vars

\* A run that made all three calls, in order.
C7_Witness ==
    /\ pc = "done"
    /\ trace = <<"post", "parse", "loads", "compute">>
    /\ ~ErrorShown

\* All six fields present, the numeric ones numbers, the panel type a string.
AllSixTyped(a) ==
    /\ ~a.none
    /\ a.val.t = "obj"
    /\ \A f \in NumericFields : IsNum(a.m[f])
    /\ a.m["suggested_panel_type"].t = "str"

\* The data model's validation.
Validated(a) ==
    /\ AllSixTyped(a)
    /\ a.m["roof_area_sqm"].n > 0
    /\ a.m["estimated_annual_kwh"].n >= 0

\* C3: the attribute record is all-or-nothing: a decoded object that lacks
\* one of the six fields, or has one of the wrong type, is a parse failure;
\* it is not returned to the caller, not displayed and not used.
C3_AllOrNothing ==
    /\ (pc \in {"L139", "L143", "L149", "L157", "done"} /\ ~analysis.none) =>
          AllSixTyped(analysis)
    /\ page.json_shown => AllSixTyped(page.json)
    /\ "compute" \in Events => AllSixTyped(analysis)

\* C9: calculate_roi is called only with attributes that passed the
\* validation: six fields, numbers where declared, roof_area_sqm > 0 and
\* estimated_annual_kwh >= 0.
C9_ComputeOnlyValidated == "compute" \in Events => Validated(analysis)

\* C10: a payback period of +infinity is special-cased for display and does
\* not go through the numeric format of the finite ones.
C10_InfinitySpecialCased ==
    (page.roi_lines # << >> /\ roi.payback_period_years = Inf) =>
        /\ page.roi_lines[6].via # ".2f"
        /\ page.roi_lines[6].text # "inf"

====
